---- MODULE Spec2Model ----
(***************************************************************************)
(* rethinkdb-watch: the async generator watch() that turns a RethinkDB     *)
(* changefeed cursor into an initial batch followed by time-windowed       *)
(* batches of add/change/remove updates.                                   *)
(*                                                                         *)
(* The sources hold two texts of watch():                                  *)
(*   "dedup"  - the text after the manifest in src/package.json (lines     *)
(*              114-457): handleChanges with handleDuplicateUpdates,       *)
(*              a type check in getKey, squash: false, and a batch that    *)
(*              is yielded only when it is not empty;                      *)
(*   "legacy" - src/src/watch.ts: no duplicate tracking, no type check in  *)
(*              getKey, squash: true, a window that starts only on a       *)
(*              non-null update and always yields its batch.               *)
(* Both are modelled; the variable `variant` fixes which text runs.        *)
(***************************************************************************)
EXTENDS Integers, Sequences, FiniteSets, TLC

\* ------------------------------------------------------------------ bounds
\* Number of raw events the cursor delivers in one run.
MaxEvents == 4

\* ------------------------------------------------------------ value domain
\* Documents are records [id, v]; id 0 stands for null / undefined.
Ids == {1, 2}
\* Documents for which the user's key function returns a non-string value.
BadIds == {3}
Data == {0, 1}
NullVal == [id |-> 0, v |-> 0]
Docs == [id : Ids, v : Data]
BadDocs == [id : BadIds, v : {0}]
Keys == Ids \cup BadIds

Variants == {"dedup", "legacy"}

\* ------------------------------------------------ Changes<T> (raw events)
Marker(s) == [old_val |-> NullVal, new_val |-> NullVal, error |-> FALSE, state |-> s]
RawAdd(d) == [old_val |-> NullVal, new_val |-> d, error |-> FALSE, state |-> "none"]
RawChange(o, n) == [old_val |-> o, new_val |-> n, error |-> FALSE, state |-> "none"]
RawRemove(d) == [old_val |-> d, new_val |-> NullVal, error |-> FALSE, state |-> "none"]
RawError(d) == [old_val |-> NullVal, new_val |-> d, error |-> TRUE, state |-> "none"]

\* The raw events the cursor can deliver. Documents of id 1 take part in
\* every kind of event with every content; the second document is only
\* added and removed, which keeps the alphabet small while two keys live
\* side by side.
VariedDocs == {d \in Docs : d.id = 1}
PlainDocs == {d \in Docs : d.id # 1 /\ d.v = 0}

RawEvents ==
  {Marker("initializing"), Marker("ready")}
    \cup {RawAdd(d) : d \in VariedDocs \cup PlainDocs \cup BadDocs}
    \cup {RawChange(c[1], c[2]) :
            c \in {p \in VariedDocs \X VariedDocs : p[1].v # p[2].v}}
    \cup {RawRemove(d) : d \in VariedDocs \cup PlainDocs}
    \cup {RawError([id |-> 1, v |-> 0])}

\* ------------------------------------------------------------ WatchUpdate
NullUpdate == [type |-> "null", oldVal |-> NullVal, newVal |-> NullVal]
AddUpdate(n) == [type |-> "add", oldVal |-> NullVal, newVal |-> n]
ChangeUpdate(o, n) == [type |-> "change", oldVal |-> o, newVal |-> n]
RemoveUpdate(o) == [type |-> "remove", oldVal |-> o, newVal |-> NullVal]

\* makeUpdate without the error check.
makeUpdateThrows_never(changes) == FALSE

\* makeUpdate throws when changes.error != null.
makeUpdateThrows(changes) == changes.error

\* makeUpdate that looks at new_val only: a raw event with both values
\* becomes an Add.
makeUpdate_newValOnly(changes) ==
  IF changes.new_val # NullVal
    THEN AddUpdate(changes.new_val)
    ELSE IF changes.old_val = NullVal
           THEN NullUpdate
           ELSE RemoveUpdate(changes.old_val)

makeUpdate(changes) ==
  IF changes.new_val # NullVal
    THEN IF changes.old_val = NullVal
           THEN AddUpdate(changes.new_val)
           ELSE ChangeUpdate(changes.old_val, changes.new_val)
    ELSE IF changes.old_val = NullVal
           THEN NullUpdate
           ELSE RemoveUpdate(changes.old_val)

\* The user's key function: key((update.newVal ?? update.oldVal)!).
key(value) == value.id

KeyIsString(k) == k \notin BadIds

\* getKey: the value the key function returns for the update.
getKey(update) ==
  key(IF update.newVal # NullVal THEN update.newVal ELSE update.oldVal)

\* getKey throws (package.json text only) when typeof value !== 'string'.
getKeyThrows(v, update) == v = "dedup" /\ ~KeyIsString(getKey(update))

\* --------------------------------------------------------- batch (a Map)
\* A batch maps every key to its entry; NullUpdate stands for "no entry".
EmptyBatch == [k \in Keys |-> NullUpdate]
BatchKeys(b) == {k \in Keys : b[k] # NullUpdate}
BatchSize(b) == Cardinality(BatchKeys(b))

\* addToBatch that builds the Remove after a Change from the new update's
\* oldVal instead of the recorded one.
addToBatch_lastOldVal(b, k, update) ==
  LET prevUpdate == b[k]
      Ok(e) == [err |-> "none", batch |-> [b EXCEPT ![k] = e]]
      Throw == [err |-> "grammar", batch |-> b]
  IN  IF prevUpdate = NullUpdate THEN Ok(update)
      ELSE IF prevUpdate.type = "add" THEN
        IF update.type = "add" THEN Throw
        ELSE IF update.type = "change" THEN Ok(AddUpdate(update.newVal))
        ELSE Ok(NullUpdate)
      ELSE IF prevUpdate.type = "change" THEN
        IF update.type = "add" THEN Throw
        ELSE IF update.type = "change"
          THEN Ok(ChangeUpdate(prevUpdate.oldVal, update.newVal))
        ELSE Ok(RemoveUpdate(update.oldVal))
      ELSE
        IF update.type = "add"
          THEN Ok(ChangeUpdate(prevUpdate.oldVal, update.newVal))
        ELSE Throw

\* addToBatch that stores the Remove after an Add instead of deleting the
\* entry.
addToBatch_addRemoveKept(b, k, update) ==
  LET prevUpdate == b[k]
      Ok(e) == [err |-> "none", batch |-> [b EXCEPT ![k] = e]]
      Throw == [err |-> "grammar", batch |-> b]
  IN  IF prevUpdate = NullUpdate THEN Ok(update)
      ELSE IF prevUpdate.type = "add" THEN
        IF update.type = "add" THEN Throw
        ELSE IF update.type = "change" THEN Ok(AddUpdate(update.newVal))
        ELSE Ok(update)
      ELSE IF prevUpdate.type = "change" THEN
        IF update.type = "add" THEN Throw
        ELSE IF update.type = "change"
          THEN Ok(ChangeUpdate(prevUpdate.oldVal, update.newVal))
        ELSE Ok(RemoveUpdate(prevUpdate.oldVal))
      ELSE
        IF update.type = "add"
          THEN Ok(ChangeUpdate(prevUpdate.oldVal, update.newVal))
        ELSE Throw

\* addToBatch that lets an Add overwrite an Add instead of throwing.
addToBatch_addOverwrites(b, k, update) ==
  LET prevUpdate == b[k]
      Ok(e) == [err |-> "none", batch |-> [b EXCEPT ![k] = e]]
      Throw == [err |-> "grammar", batch |-> b]
  IN  IF prevUpdate = NullUpdate THEN Ok(update)
      ELSE IF prevUpdate.type = "add" THEN
        IF update.type = "add" THEN Ok(update)
        ELSE IF update.type = "change" THEN Ok(AddUpdate(update.newVal))
        ELSE Ok(NullUpdate)
      ELSE IF prevUpdate.type = "change" THEN
        IF update.type = "add" THEN Throw
        ELSE IF update.type = "change"
          THEN Ok(ChangeUpdate(prevUpdate.oldVal, update.newVal))
        ELSE Ok(RemoveUpdate(prevUpdate.oldVal))
      ELSE
        IF update.type = "add"
          THEN Ok(ChangeUpdate(prevUpdate.oldVal, update.newVal))
        ELSE Throw

\* addToBatch: the result [err, batch]; err = "grammar" when it throws.
addToBatch(b, k, update) ==
  LET prevUpdate == b[k]
      Ok(e) == [err |-> "none", batch |-> [b EXCEPT ![k] = e]]
      Throw == [err |-> "grammar", batch |-> b]
  IN  IF prevUpdate = NullUpdate THEN Ok(update)
      ELSE IF prevUpdate.type = "add" THEN
        IF update.type = "add" THEN Throw
        ELSE IF update.type = "change" THEN Ok(AddUpdate(update.newVal))
        ELSE Ok(NullUpdate)
      ELSE IF prevUpdate.type = "change" THEN
        IF update.type = "add" THEN Throw
        ELSE IF update.type = "change"
          THEN Ok(ChangeUpdate(prevUpdate.oldVal, update.newVal))
        ELSE Ok(RemoveUpdate(prevUpdate.oldVal))
      ELSE \* prevUpdate.type = "remove"
        IF update.type = "add"
          THEN Ok(ChangeUpdate(prevUpdate.oldVal, update.newVal))
        ELSE Throw

\* ------------------------------------------------ states (the dedup map)
NoState == [refCount |-> 0, pendingUpdates |-> << >>]
EmptyStates == [k \in Keys |-> NoState]
HasState(st, k) == st[k] # NoState

\* handleDuplicateUpdates whose remove branch keeps the Remove instead of
\* replacing it by the last pending Change.
handleDuplicateUpdates_keepRemove(st, k, update) ==
  LET state == st[k]
      Ret(s, u) == [err |-> "none", states |-> [st EXCEPT ![k] = s], update |-> u]
      Throw == [err |-> "protocol", states |-> st, update |-> NullUpdate]
  IN  IF update.type = "add" THEN
        IF HasState(st, k)
          THEN Ret([state EXCEPT !.refCount = @ + 1], NullUpdate)
          ELSE Ret([refCount |-> 1, pendingUpdates |-> << >>], update)
      ELSE IF update.type = "change" THEN
        IF ~HasState(st, k) THEN Throw
        ELSE LET pushed == Append(state.pendingUpdates, update)
             IN  IF Len(pushed) = state.refCount
                   THEN Ret([state EXCEPT !.pendingUpdates = << >>], update)
                   ELSE Ret([state EXCEPT !.pendingUpdates = pushed], NullUpdate)
      ELSE
        IF ~HasState(st, k) THEN Throw
        ELSE LET rc == state.refCount - 1
                 pu == state.pendingUpdates
             IN  IF Len(pu) = rc
                   THEN IF rc = 0
                          THEN Ret(NoState, update)
                          ELSE Ret([refCount |-> rc, pendingUpdates |-> << >>], update)
                   ELSE Ret([refCount |-> rc, pendingUpdates |-> pu], NullUpdate)

\* handleDuplicateUpdates whose change branch emits the last Change without
\* emptying the pending list.
handleDuplicateUpdates_noClear(st, k, update) ==
  LET state == st[k]
      Ret(s, u) == [err |-> "none", states |-> [st EXCEPT ![k] = s], update |-> u]
      Throw == [err |-> "protocol", states |-> st, update |-> NullUpdate]
  IN  IF update.type = "add" THEN
        IF HasState(st, k)
          THEN Ret([state EXCEPT !.refCount = @ + 1], NullUpdate)
          ELSE Ret([refCount |-> 1, pendingUpdates |-> << >>], update)
      ELSE IF update.type = "change" THEN
        IF ~HasState(st, k) THEN Throw
        ELSE LET pushed == Append(state.pendingUpdates, update)
             IN  IF Len(pushed) = state.refCount
                   THEN Ret([state EXCEPT !.pendingUpdates = pushed], update)
                   ELSE Ret([state EXCEPT !.pendingUpdates = pushed], NullUpdate)
      ELSE
        IF ~HasState(st, k) THEN Throw
        ELSE LET rc == state.refCount - 1
                 pu == state.pendingUpdates
             IN  IF Len(pu) = rc
                   THEN IF rc = 0
                          THEN Ret(NoState, update)
                          ELSE Ret([refCount |-> rc, pendingUpdates |-> << >>],
                                   pu[Len(pu)])
                   ELSE Ret([refCount |-> rc, pendingUpdates |-> pu], NullUpdate)

\* handleDuplicateUpdates that counts a further Add but does not skip it.
handleDuplicateUpdates_emitEveryAdd(st, k, update) ==
  LET state == st[k]
      Ret(s, u) == [err |-> "none", states |-> [st EXCEPT ![k] = s], update |-> u]
      Throw == [err |-> "protocol", states |-> st, update |-> NullUpdate]
  IN  IF update.type = "add" THEN
        IF HasState(st, k)
          THEN Ret([state EXCEPT !.refCount = @ + 1], update)
          ELSE Ret([refCount |-> 1, pendingUpdates |-> << >>], update)
      ELSE IF update.type = "change" THEN
        IF ~HasState(st, k) THEN Throw
        ELSE LET pushed == Append(state.pendingUpdates, update)
             IN  IF Len(pushed) = state.refCount
                   THEN Ret([state EXCEPT !.pendingUpdates = << >>], update)
                   ELSE Ret([state EXCEPT !.pendingUpdates = pushed], NullUpdate)
      ELSE
        IF ~HasState(st, k) THEN Throw
        ELSE LET rc == state.refCount - 1
                 pu == state.pendingUpdates
             IN  IF Len(pu) = rc
                   THEN IF rc = 0
                          THEN Ret(NoState, update)
                          ELSE Ret([refCount |-> rc, pendingUpdates |-> << >>],
                                   pu[Len(pu)])
                   ELSE Ret([refCount |-> rc, pendingUpdates |-> pu], NullUpdate)

\* handleDuplicateUpdates that lets the first pending Change through instead
\* of the last.
handleDuplicateUpdates_emitFirstChange(st, k, update) ==
  LET state == st[k]
      Ret(s, u) == [err |-> "none", states |-> [st EXCEPT ![k] = s], update |-> u]
      Throw == [err |-> "protocol", states |-> st, update |-> NullUpdate]
  IN  IF update.type = "add" THEN
        IF HasState(st, k)
          THEN Ret([state EXCEPT !.refCount = @ + 1], NullUpdate)
          ELSE Ret([refCount |-> 1, pendingUpdates |-> << >>], update)
      ELSE IF update.type = "change" THEN
        IF ~HasState(st, k) THEN Throw
        ELSE LET pushed == Append(state.pendingUpdates, update)
                 left == IF Len(pushed) = state.refCount THEN << >> ELSE pushed
             IN  IF Len(pushed) = 1
                   THEN Ret([state EXCEPT !.pendingUpdates = left], update)
                   ELSE Ret([state EXCEPT !.pendingUpdates = left], NullUpdate)
      ELSE
        IF ~HasState(st, k) THEN Throw
        ELSE LET rc == state.refCount - 1
                 pu == state.pendingUpdates
             IN  IF Len(pu) = rc
                   THEN IF rc = 0
                          THEN Ret(NoState, update)
                          ELSE Ret([refCount |-> rc, pendingUpdates |-> << >>],
                                   pu[Len(pu)])
                   ELSE Ret([refCount |-> rc, pendingUpdates |-> pu], NullUpdate)

\* handleDuplicateUpdates: the result [err, states, update]; update is
\* NullUpdate when the function returns null (skip), err = "protocol" when
\* it throws.
handleDuplicateUpdates(st, k, update) ==
  LET state == st[k]
      Ret(s, u) == [err |-> "none", states |-> [st EXCEPT ![k] = s], update |-> u]
      Throw == [err |-> "protocol", states |-> st, update |-> NullUpdate]
  IN  IF update.type = "add" THEN
        IF HasState(st, k)
          THEN Ret([state EXCEPT !.refCount = @ + 1], NullUpdate)
          ELSE Ret([refCount |-> 1, pendingUpdates |-> << >>], update)
      ELSE IF update.type = "change" THEN
        IF ~HasState(st, k) THEN Throw
        ELSE LET pushed == Append(state.pendingUpdates, update)
             IN  IF Len(pushed) = state.refCount
                   THEN Ret([state EXCEPT !.pendingUpdates = << >>], update)
                   ELSE Ret([state EXCEPT !.pendingUpdates = pushed], NullUpdate)
      ELSE \* update.type = "remove"
        IF ~HasState(st, k) THEN Throw
        ELSE LET rc == state.refCount - 1
                 pu == state.pendingUpdates
             IN  IF Len(pu) = rc
                   THEN IF rc = 0
                          THEN Ret(NoState, update)
                          ELSE Ret([refCount |-> rc, pendingUpdates |-> << >>],
                                   pu[Len(pu)])
                   ELSE Ret([refCount |-> rc, pendingUpdates |-> pu], NullUpdate)

\* ------------------------------------------------------------------------
\* handleChanges (package.json text) and the inline makeUpdate / getKey /
\* addToBatch sequence of src/src/watch.ts: what one raw event does to the
\* dedup map and the batch. Result [err, states, batch, update, emitted]:
\* update is the normalised update (NullUpdate when makeUpdate gave null),
\* emitted the update handed to addToBatch (NullUpdate when none was).
handleChanges(v, st, b, changes) ==
  LET update == makeUpdate(changes)
      k == getKey(update)
      Out(e, s, bb, em) ==
        [err |-> e, states |-> s, batch |-> bb, update |-> update, emitted |-> em]
  IN  IF makeUpdateThrows(changes) THEN
        [err |-> "stream", states |-> st, batch |-> b, update |-> NullUpdate,
         emitted |-> NullUpdate]
      ELSE IF update = NullUpdate THEN Out("none", st, b, NullUpdate)
      ELSE IF getKeyThrows(v, update) THEN Out("key", st, b, NullUpdate)
      ELSE IF v = "dedup" THEN
        LET d == handleDuplicateUpdates(st, k, update)
        IN  IF d.err # "none" THEN Out(d.err, st, b, NullUpdate)
            ELSE IF d.update = NullUpdate THEN Out("none", d.states, b, NullUpdate)
            ELSE LET a == addToBatch(b, k, d.update)
                 IN  Out(a.err, d.states, a.batch, d.update)
      ELSE
        LET a == addToBatch(b, k, update)
        IN  Out(a.err, st, a.batch, update)

\* ------------------------------------------------------------------ state
VARIABLES
  variant,         \* which text of watch() runs ("consumeFeed": that generator)
  abortedAt,       \* history: where the generator was when the signal was aborted
  pc,              \* where the generator body is suspended
  aborted,         \* signal.aborted
  issued,          \* number of cursor.next() calls made so far
  feed,            \* feed[i]: the raw event that resolved the i-th cursor.next()
  nextPromise,     \* the read the main flow awaits (index of the call, 0: none)
  pendingPromise,  \* the pendingPromise slot (index of the call, 0: undefined)
  processed,       \* history: the reads whose result was normalised, in order
  batch,           \* initialBatch / batch of the current window
  states,          \* the dedup map
  yielded,         \* history: the batches handed to the consumer
  closeCalls,      \* number of cursor.close() calls
  emitted,         \* history: the updates handed to addToBatch, with their read
  winStart,        \* history: Len(emitted) when the current batch was created
  carried,         \* history: the read that was unresolved in pendingPromise
                   \* when the timer last ended a window (0: none)
  outcome          \* how the generator ended ("none" while it has not)

vars == <<variant, abortedAt, pc, aborted, issued, feed, nextPromise, pendingPromise,
          processed, batch, states, yielded, closeCalls, emitted, winStart, carried, outcome>>

Init ==
  /\ variant \in Variants
  /\ pc = "start"
  /\ aborted = FALSE
  /\ abortedAt = "never"
  /\ issued = 0
  /\ feed = << >>
  /\ nextPromise = 0
  /\ pendingPromise = 0
  /\ processed = << >>
  /\ batch = EmptyBatch
  /\ states = EmptyStates
  /\ yielded = << >>
  /\ closeCalls = 0
  /\ emitted = << >>
  /\ winStart = 0
  /\ carried = 0
  /\ outcome = "none"

Resolved(i) == i >= 1 /\ i <= Len(feed)

\* The history of emitted updates after read i has been handled with result h.
Emit(i, h) ==
  IF h.emitted = NullUpdate THEN emitted
  ELSE Append(emitted, [read |-> i, update |-> h.emitted])

\* The finally block: cursor.close(), after which the generator is done and
\* the pending iterator.next() settles with `how`.
Finally(how) ==
  /\ pc' = "done"
  /\ outcome' = how
  /\ closeCalls' = closeCalls + 1

\* The generator ends before the cursor exists (no try block entered).
EndWithoutCursor(how) ==
  /\ pc' = "done"
  /\ outcome' = how
  /\ UNCHANGED closeCalls

\* ------------------------------------------------------------- the cursor
\* The cursor resolves the oldest unresolved cursor.next() with a raw event.
CursorDeliver ==
  /\ closeCalls = 0
  /\ Len(feed) < issued
  /\ Len(feed) < MaxEvents
  /\ \E changes \in RawEvents : feed' = Append(feed, changes)
  /\ UNCHANGED <<emitted, winStart, carried, variant, abortedAt, pc, aborted, issued, nextPromise, pendingPromise,
                 processed, batch, states, yielded, closeCalls, outcome>>

\* ------------------------------------------------------- start of watch()
\* The first iterator.next(): the body runs up to its first await. With
\* options.key it is the await of changes().run(); without, the abortable
\* await of inferPrimaryKey, which rejects at once on an aborted signal.
ConsumerStart ==
  /\ pc = "start"
  /\ \E hasKey \in BOOLEAN :
       IF hasKey THEN pc' = "open" /\ UNCHANGED <<outcome, closeCalls>>
       ELSE IF aborted THEN EndWithoutCursor("AbortError")
       ELSE pc' = "infer" /\ UNCHANGED <<outcome, closeCalls>>
  /\ UNCHANGED <<emitted, winStart, carried, variant, abortedAt, aborted, issued, feed, nextPromise, pendingPromise,
                 processed, batch, states, yielded>>

\* InferPrimaryKey with the key resolution placed inside the try block,
\* so that a failed inference runs the finally block.
InferPrimaryKey_insideTry ==
  /\ pc = "infer"
  /\ \E found \in BOOLEAN :
       IF found THEN pc' = "open" /\ UNCHANGED <<outcome, closeCalls>>
       ELSE Finally("inferError")
  /\ UNCHANGED <<emitted, winStart, carried, variant, abortedAt, aborted, issued, feed, nextPromise, pendingPromise,
                 processed, batch, states, yielded>>

\* inferPrimaryKey resolves with a primary key, or throws.
InferPrimaryKey ==
  /\ pc = "infer"
  /\ \E found \in BOOLEAN :
       IF found THEN pc' = "open" /\ UNCHANGED <<outcome, closeCalls>>
       ELSE EndWithoutCursor("inferError")
  /\ UNCHANGED <<emitted, winStart, carried, variant, abortedAt, aborted, issued, feed, nextPromise, pendingPromise,
                 processed, batch, states, yielded>>

\* The options watch() passes to changes() when it opens the cursor
\* (changefeedQueueSize is forwarded as given): src/package.json sets
\* squash: false, src/src/watch.ts sets squash: true.
changesOptions(v) ==
  [squash |-> (v = "legacy"), includeInitial |-> TRUE, includeStates |-> TRUE]

\* CursorOpen with the first read not wrapped in abortable: an abort that
\* came while the cursor was being opened goes unnoticed.
CursorOpen_abortUnchecked ==
  /\ pc = "open"
  /\ issued' = issued + 1
  /\ nextPromise' = issued + 1
  /\ pc' = "initRead" /\ UNCHANGED <<outcome, closeCalls>>
  /\ UNCHANGED <<emitted, winStart, carried, variant, abortedAt, aborted, feed,
                 pendingPromise, processed, batch, states, yielded>>

\* changes().run() resolves with the cursor; the try block is entered and the
\* first `await abortable(signal, cursor.next())` is reached.
CursorOpen ==
  /\ pc = "open"
  /\ issued' = issued + 1
  /\ nextPromise' = issued + 1
  /\ IF aborted THEN Finally("AbortError")
     ELSE pc' = "initRead" /\ UNCHANGED <<outcome, closeCalls>>
  /\ UNCHANGED <<emitted, winStart, carried, variant, abortedAt, aborted, feed, pendingPromise, processed, batch,
                 states, yielded>>

\* ------------------------------------------------------ initial collection
\* InitialStep leaving the loop on any state marker (`if (changes.state)`).
InitialStep_anyState ==
  /\ pc = "initRead"
  /\ Resolved(nextPromise)
  /\ LET changes == feed[nextPromise]
         h == handleChanges(variant, states, batch, changes)
     IN  /\ processed' = Append(processed, nextPromise)
         /\ emitted' = Emit(nextPromise, h)
         /\ states' = h.states
         /\ batch' = h.batch
         /\ IF h.err # "none" THEN
              /\ Finally(h.err)
              /\ UNCHANGED <<issued, nextPromise, yielded>>
            ELSE IF changes.state # "none" THEN
              /\ yielded' = Append(yielded, h.batch)
              /\ pc' = "yieldInitial"
              /\ UNCHANGED <<issued, nextPromise, outcome, closeCalls>>
            ELSE
              /\ issued' = issued + 1
              /\ nextPromise' = issued + 1
              /\ UNCHANGED <<pc, yielded, outcome, closeCalls>>
  /\ UNCHANGED <<winStart, carried, variant, abortedAt, aborted, feed, pendingPromise>>

\* One turn of the first while loop, once the awaited read has resolved.
InitialStep ==
  /\ pc = "initRead"
  /\ Resolved(nextPromise)
  /\ LET changes == feed[nextPromise]
         h == handleChanges(variant, states, batch, changes)
     IN  /\ processed' = Append(processed, nextPromise)
         /\ emitted' = Emit(nextPromise, h)
         /\ states' = h.states
         /\ batch' = h.batch
         /\ IF h.err # "none" THEN
              /\ Finally(h.err)
              /\ UNCHANGED <<issued, nextPromise, yielded>>
            ELSE IF changes.state = "ready" THEN
              /\ yielded' = Append(yielded, h.batch)
              /\ pc' = "yieldInitial"
              /\ UNCHANGED <<issued, nextPromise, outcome, closeCalls>>
            ELSE
              /\ issued' = issued + 1
              /\ nextPromise' = issued + 1
              /\ UNCHANGED <<pc, yielded, outcome, closeCalls>>
  /\ UNCHANGED <<winStart, carried, variant, abortedAt, aborted, feed, pendingPromise>>

\* ------------------------------------------------------------ streaming
\* LoopTop with the pending read forgotten: a new read is always issued.
LoopTop_dropPending ==
  /\ nextPromise' = issued + 1
  /\ issued' = issued + 1
  /\ pendingPromise' = 0
  /\ batch' = EmptyBatch
  /\ winStart' = Len(emitted)
  /\ IF aborted THEN Finally("AbortError")
     ELSE pc' = "seedRead" /\ UNCHANGED <<outcome, closeCalls>>

\* The top of the second while loop up to `await abortable(signal,
\* nextPromise)`: the pending read is taken over, or a new read is issued.
LoopTop ==
  /\ IF pendingPromise # 0
       THEN nextPromise' = pendingPromise /\ UNCHANGED issued
       ELSE nextPromise' = issued + 1 /\ issued' = issued + 1
  /\ pendingPromise' = 0
  /\ batch' = EmptyBatch
  /\ winStart' = Len(emitted)
  /\ IF aborted THEN Finally("AbortError")
     ELSE pc' = "seedRead" /\ UNCHANGED <<outcome, closeCalls>>

\* iterator.next() while the generator is suspended at a yield.
ConsumerNext ==
  /\ pc \in {"yieldInitial", "yieldBatch"}
  /\ LoopTop
  /\ UNCHANGED <<emitted, carried, variant, abortedAt, aborted, feed, processed, states, yielded>>

\* The race is entered: the inner loop issues its first read into
\* pendingPromise and the delay timer is started.
StartRace ==
  /\ pc' = "race"
  /\ pendingPromise' = issued + 1
  /\ issued' = issued + 1
  /\ UNCHANGED <<nextPromise, outcome, closeCalls>>

\* The seed read of a window has resolved.
SeedStep ==
  /\ pc = "seedRead"
  /\ Resolved(nextPromise)
  /\ LET changes == feed[nextPromise]
         h == handleChanges(variant, states, batch, changes)
     IN  /\ processed' = Append(processed, nextPromise)
         /\ emitted' = Emit(nextPromise, h)
         /\ states' = h.states
         /\ batch' = h.batch
         /\ IF h.err # "none" THEN
              /\ Finally(h.err)
              /\ UNCHANGED <<issued, nextPromise, pendingPromise>>
            ELSE IF variant = "legacy" /\ h.update = NullUpdate THEN
              \* `continue`: back to the top of the loop, a new read
              /\ issued' = issued + 1
              /\ nextPromise' = issued + 1
              /\ UNCHANGED <<pc, pendingPromise, outcome, closeCalls>>
            ELSE StartRace
  /\ UNCHANGED <<winStart, carried, variant, abortedAt, aborted, feed, yielded>>

\* RaceStep of a read loop that the end of the race does not stop: it goes
\* on reading into the batch after the batch has been yielded.
RaceStep_afterYield ==
  /\ pc \in {"race", "yieldBatch"}
  /\ Resolved(pendingPromise)
  /\ LET changes == feed[pendingPromise]
         h == handleChanges(variant, states, batch, changes)
     IN  /\ processed' = Append(processed, pendingPromise)
         /\ emitted' = Emit(pendingPromise, h)
         /\ states' = h.states
         /\ batch' = h.batch
         /\ IF h.err # "none" THEN
              /\ Finally(h.err)
              /\ UNCHANGED <<issued, pendingPromise>>
            ELSE
              /\ pendingPromise' = issued + 1
              /\ issued' = issued + 1
              /\ UNCHANGED <<pc, outcome, closeCalls>>
  /\ UNCHANGED <<winStart, carried, variant, abortedAt, aborted, feed, nextPromise, yielded>>

\* RaceStep that hands the batch gathered so far to the consumer when the
\* event it processes raises an error.
RaceStep_flushOnError ==
  /\ pc = "race"
  /\ Resolved(pendingPromise)
  /\ LET changes == feed[pendingPromise]
         h == handleChanges(variant, states, batch, changes)
     IN  /\ processed' = Append(processed, pendingPromise)
         /\ emitted' = Emit(pendingPromise, h)
         /\ states' = h.states
         /\ batch' = h.batch
         /\ IF h.err # "none" THEN
              /\ Finally(h.err)
              /\ yielded' = Append(yielded, h.batch)
              /\ UNCHANGED <<issued, pendingPromise>>
            ELSE
              /\ pendingPromise' = issued + 1
              /\ issued' = issued + 1
              /\ UNCHANGED <<pc, outcome, closeCalls, yielded>>
  /\ UNCHANGED <<winStart, carried, variant, abortedAt, aborted, feed, nextPromise>>

\* One turn of the read loop inside the race.
RaceStep ==
  /\ pc = "race"
  /\ Resolved(pendingPromise)
  /\ LET changes == feed[pendingPromise]
         h == handleChanges(variant, states, batch, changes)
     IN  /\ processed' = Append(processed, pendingPromise)
         /\ emitted' = Emit(pendingPromise, h)
         /\ states' = h.states
         /\ batch' = h.batch
         /\ IF h.err # "none" THEN
              /\ Finally(h.err)
              /\ UNCHANGED <<issued, pendingPromise>>
            ELSE
              /\ pendingPromise' = issued + 1
              /\ issued' = issued + 1
              /\ UNCHANGED <<pc, outcome, closeCalls>>
  /\ UNCHANGED <<winStart, carried, variant, abortedAt, aborted, feed, nextPromise, yielded>>

\* The batch is handed to the consumer.
YieldBatch ==
  /\ yielded' = Append(yielded, batch)
  /\ pc' = "yieldBatch"
  /\ UNCHANGED <<issued, nextPromise, pendingPromise, batch, winStart, outcome,
                 closeCalls>>

\* TimerFire that gives way to the read loop: the window is closed only
\* while no resolved read is waiting to be processed.
TimerFire_yieldsToReads ==
  /\ pc = "race"
  /\ ~Resolved(pendingPromise)
  /\ carried' = pendingPromise
  /\ IF variant = "dedup" /\ BatchSize(batch) = 0
       THEN LoopTop /\ UNCHANGED yielded
       ELSE YieldBatch
  /\ UNCHANGED <<emitted, variant, abortedAt, aborted, feed, processed, states>>

\* delay(signal, bufferTimeMs) resolves: the race ends, the read loop is
\* aborted with its read left in pendingPromise, and the window closes.
TimerFire ==
  /\ pc = "race"
  /\ carried' = IF Resolved(pendingPromise) THEN 0 ELSE pendingPromise
  /\ IF variant = "dedup" /\ BatchSize(batch) = 0
       THEN LoopTop /\ UNCHANGED yielded
       ELSE YieldBatch
  /\ UNCHANGED <<emitted, variant, abortedAt, aborted, feed, processed, states>>

\* ------------------------------------------------------------ the signal
\* Abort with the race not wired to the signal: the window runs on.
Abort_raceIgnores ==
  /\ ~aborted
  /\ pc # "done"
  /\ aborted' = TRUE
  /\ abortedAt' = pc
  /\ IF pc = "infer" THEN EndWithoutCursor("AbortError")
     ELSE IF pc \in {"initRead", "seedRead"} THEN Finally("AbortError")
     ELSE UNCHANGED <<pc, outcome, closeCalls>>
  /\ UNCHANGED <<emitted, winStart, carried, variant, issued, feed, nextPromise,
                 pendingPromise, processed, batch, states, yielded>>

\* iterator.return() with the yield outside the try block: no close.
ConsumerReturn_noClose ==
  /\ pc \in {"start", "yieldInitial", "yieldBatch"}
  /\ EndWithoutCursor("return")
  /\ UNCHANGED <<emitted, winStart, carried, variant, abortedAt, aborted, issued, feed,
                 nextPromise, pendingPromise, processed, batch, states, yielded>>

\* abortController.abort(): an abortable await that is pending rejects with
\* AbortError; the race rejects likewise.
Abort ==
  /\ ~aborted
  /\ pc # "done"
  /\ aborted' = TRUE
  /\ abortedAt' = pc
  /\ IF pc = "infer" THEN EndWithoutCursor("AbortError")
     ELSE IF pc \in {"initRead", "seedRead", "race"} THEN Finally("AbortError")
     ELSE UNCHANGED <<pc, outcome, closeCalls>>
  /\ UNCHANGED <<emitted, winStart, carried, variant, issued, feed, nextPromise, pendingPromise, processed,
                 batch, states, yielded>>

\* iterator.return(): at a yield the finally block runs; before the first
\* next() the body never runs.
ConsumerReturn ==
  /\ pc \in {"start", "yieldInitial", "yieldBatch"}
  /\ IF pc = "start" THEN EndWithoutCursor("return") ELSE Finally("return")
  /\ UNCHANGED <<emitted, winStart, carried, variant, abortedAt, aborted, issued, feed, nextPromise, pendingPromise,
                 processed, batch, states, yielded>>

Next ==
  \/ CursorDeliver
  \/ ConsumerStart
  \/ InferPrimaryKey
  \/ CursorOpen
  \/ InitialStep
  \/ ConsumerNext
  \/ SeedStep
  \/ RaceStep
  \/ TimerFire
  \/ Abort
  \/ ConsumerReturn

Spec == Init /\ [][Next]_vars

\* The two texts of watch() on their own.
SpecDedup == Init /\ variant = "dedup" /\ [][Next]_vars
SpecLegacy == Init /\ variant = "legacy" /\ [][Next]_vars

\* The scheduling of the event loop: a delay that has been started fires
\* (its timer is a task of its own, which the read loop cannot hold back),
\* and the consumer keeps pulling.
SpecFair == Spec /\ WF_vars(TimerFire) /\ WF_vars(ConsumerNext)

\* ------------------------------------------------------------ consumeFeed
\* consumeFeed(feed, connection, signal), the generator after the tests in
\* src/src/watch.test.ts. It uses the variables of watch() that it has a
\* counterpart for: yielded holds the raw elements handed to the consumer;
\* batch, states and the histories of watch() stay as they start.
InitFeed ==
  /\ variant = "consumeFeed"
  /\ abortedAt = "never"
  /\ pc = "feedStart"
  /\ aborted = FALSE
  /\ issued = 0
  /\ feed = << >>
  /\ nextPromise = 0
  /\ pendingPromise = 0
  /\ processed = << >>
  /\ batch = EmptyBatch
  /\ states = EmptyStates
  /\ yielded = << >>
  /\ closeCalls = 0
  /\ emitted = << >>
  /\ winStart = 0
  /\ carried = 0
  /\ outcome = "none"

\* The first iterator.next(): the body runs up to `await feed.run(connection)`.
FeedStart ==
  /\ pc = "feedStart"
  /\ pc' = "feedOpen"
  /\ UNCHANGED <<variant, abortedAt, aborted, issued, feed, nextPromise, pendingPromise,
                 processed, batch, states, yielded, closeCalls, emitted, winStart,
                 carried, outcome>>

\* feed.run() resolves with the cursor; the try block is entered and
\* `await abortable(signal, cursor.next())` is reached.
FeedOpen ==
  /\ pc = "feedOpen"
  /\ issued' = issued + 1
  /\ nextPromise' = issued + 1
  /\ IF aborted THEN Finally("AbortError")
     ELSE pc' = "feedRead" /\ UNCHANGED <<outcome, closeCalls>>
  /\ UNCHANGED <<variant, abortedAt, aborted, feed, pendingPromise, processed, batch,
                 states, yielded, emitted, winStart, carried>>

\* The awaited read has resolved: its raw element is yielded.
FeedStep ==
  /\ pc = "feedRead"
  /\ Resolved(nextPromise)
  /\ processed' = Append(processed, nextPromise)
  /\ yielded' = Append(yielded, feed[nextPromise])
  /\ pc' = "feedYield"
  /\ UNCHANGED <<variant, abortedAt, aborted, issued, feed, nextPromise, pendingPromise,
                 batch, states, closeCalls, emitted, winStart, carried, outcome>>

\* iterator.next() while suspended at the yield: the try block has no loop,
\* so the body runs off its end through the finally block and the generator
\* completes.
FeedNext ==
  /\ pc = "feedYield"
  /\ Finally("end")
  /\ UNCHANGED <<variant, abortedAt, aborted, issued, feed, nextPromise, pendingPromise,
                 processed, batch, states, yielded, emitted, winStart, carried>>

\* abortController.abort() for consumeFeed.
FeedAbort ==
  /\ ~aborted
  /\ pc # "done"
  /\ aborted' = TRUE
  /\ abortedAt' = pc
  /\ IF pc = "feedRead" THEN Finally("AbortError")
     ELSE UNCHANGED <<pc, outcome, closeCalls>>
  /\ UNCHANGED <<variant, issued, feed, nextPromise, pendingPromise, processed, batch,
                 states, yielded, emitted, winStart, carried>>

\* iterator.return() for consumeFeed.
FeedReturn ==
  /\ pc \in {"feedStart", "feedYield"}
  /\ IF pc = "feedStart" THEN EndWithoutCursor("return") ELSE Finally("return")
  /\ UNCHANGED <<variant, abortedAt, aborted, issued, feed, nextPromise, pendingPromise,
                 processed, batch, states, yielded, emitted, winStart, carried>>

NextFeed ==
  \/ CursorDeliver
  \/ FeedStart
  \/ FeedOpen
  \/ FeedStep
  \/ FeedNext
  \/ FeedAbort
  \/ FeedReturn

SpecFeed == InitFeed /\ [][NextFeed]_vars

\* ======================================================================
\* Claims
\* ======================================================================

\* The reads the generator still holds: the one the main flow awaits, or
\* the one in the pendingPromise slot.
HeldReads ==
  IF pc \in {"initRead", "seedRead"} THEN {nextPromise}
  ELSE IF pc \in {"race", "yieldBatch"} THEN {pendingPromise}
  ELSE {}

\* C1: every raw event returned by cursor.next() is normalised exactly once
\* and in delivery order: the reads processed so far are 1, 2, ..., n with
\* no gap and no repetition, and while the generator has not ended every
\* read that was issued and not yet processed is still held (awaited by the
\* main flow or kept in pendingPromise), in particular the read that was
\* pending when the timer ended a window.
C1_ExactlyOnceInOrder ==
  /\ \A i \in 1..Len(processed) : processed[i] = i
  /\ pc # "done" =>
       /\ \A i \in 1..issued : i > Len(processed) => i \in HeldReads
       /\ carried # 0 /\ carried > Len(processed) => carried \in HeldReads

\* C1 witness: a read that was unresolved when the timer closed a window
\* has been processed as the seed of a later window, after two events.
C1_Witness ==
  /\ carried # 0
  /\ Len(processed) >= carried
  /\ carried >= 3
  /\ pc = "race"
  /\ Len(yielded) >= 2

\* The dedup map and the batch after the raw events of `evs` have been
\* handled one after another, starting from an empty map and batch.
RECURSIVE MergeAll(_, _)
MergeAll(v, evs) ==
  IF evs = << >> THEN [err |-> "none", states |-> EmptyStates, batch |-> EmptyBatch]
  ELSE LET before == MergeAll(v, SubSeq(evs, 1, Len(evs) - 1))
       IN  IF before.err # "none" THEN before
           ELSE LET h == handleChanges(v, before.states, before.batch, evs[Len(evs)])
                IN  [err |-> h.err, states |-> h.states, batch |-> h.batch]

\* The index of the first raw event delivered with state 'ready' (0: none yet).
FirstReady ==
  IF \E i \in 1..Len(feed) : feed[i].state = "ready"
    THEN CHOOSE i \in 1..Len(feed) :
           feed[i].state = "ready" /\ \A j \in 1..(i - 1) : feed[j].state # "ready"
    ELSE 0

\* C2: a batch is yielded only after a 'ready' marker has been read and
\* processed; the first yielded batch is the merge of the raw events up to
\* and including the first 'ready' event and of no later event; it is the
\* empty map when none of these events carries an add, change or remove.
C2_FirstBatch ==
  Len(yielded) >= 1 =>
    /\ FirstReady # 0
    /\ Len(processed) >= FirstReady
    /\ yielded[1] = MergeAll(variant, SubSeq(feed, 1, FirstReady)).batch
    /\ (\A i \in 1..FirstReady : makeUpdate(feed[i]) = NullUpdate)
         => yielded[1] = EmptyBatch

\* C2 witness: the first batch has been yielded after several raw events
\* and holds entries, and later events have been read since.
C2_Witness ==
  /\ Len(yielded) >= 1
  /\ FirstReady >= 3
  /\ BatchSize(yielded[1]) >= 1
  /\ Len(processed) > FirstReady

\* C2 witness of the empty dataset: the first batch is the empty map.
C2_WitnessEmpty ==
  /\ Len(yielded) >= 1
  /\ yielded[1] = EmptyBatch
  /\ FirstReady = 2

\* The processed reads whose raw event is an update of key k.
KeyReads(k) ==
  {i \in 1..Len(processed) :
     /\ ~makeUpdateThrows(feed[i])
     /\ makeUpdate(feed[i]) # NullUpdate
     /\ getKey(makeUpdate(feed[i])) = k}

\* The batch is under construction (not yet handed over, not abandoned).
BatchOpen == pc \in {"initRead", "seedRead", "race"}

\* Number of Add entries for key k in the yielded batches and in the batch
\* under construction.
AddEntries(k) ==
  Cardinality({j \in 1..Len(yielded) : yielded[j][k].type = "add"})
    + (IF BatchOpen /\ batch[k].type = "add" THEN 1 ELSE 0)

\* C3 (the claim as stated): when all N >= 1 raw updates processed for a key
\* are Adds, no grammar error has been raised and exactly one Add entry for
\* the key exists in the batches; where a dedup map is kept it counts N
\* references and holds no pending change.
C3_NAddsOneEntry ==
  \A k \in Ids :
    (KeyReads(k) # {} /\ \A i \in KeyReads(k) : makeUpdate(feed[i]).type = "add") =>
      /\ outcome # "grammar"
      /\ pc # "done" => AddEntries(k) = 1
      /\ variant = "dedup" =>
           \/ pc = "done"
           \/ states[k] = [refCount |-> Cardinality(KeyReads(k)),
                           pendingUpdates |-> << >>]

\* C3 in the text that keeps the dedup map: three Adds of one key processed.
C3_Witness ==
  \E k \in Ids :
    /\ Cardinality(KeyReads(k)) = 3
    /\ \A i \in KeyReads(k) : makeUpdate(feed[i]).type = "add"
    /\ pc = "race"
    /\ variant = "dedup"

\* The last two processed reads are one raw Change and one raw Remove of
\* key k, in either order, and before them the key had been added twice:
\* its state was refCount 2 with no pending change.
ChangeAndRemoveAtTwo(k) ==
  LET n == Len(processed) IN
  /\ n >= 2
  /\ {n - 1, n} \subseteq KeyReads(k)
  /\ {makeUpdate(feed[n - 1]).type, makeUpdate(feed[n]).type} = {"change", "remove"}
  /\ LET before == MergeAll(variant, SubSeq(feed, 1, n - 2))
     IN  /\ before.err = "none"
         /\ before.states[k] = [refCount |-> 2, pendingUpdates |-> << >>]

\* The raw Change among the last two processed reads, as an update.
LastChange ==
  LET n == Len(processed) IN
  IF makeUpdate(feed[n]).type = "change"
    THEN makeUpdate(feed[n]) ELSE makeUpdate(feed[n - 1])

\* C4: for a key with refCount 2 and no pending change, one raw Change and
\* one raw Remove, whichever comes first, raise no error and emit exactly
\* one update, the Change (no Remove, no second Change); afterwards the key
\* has refCount 1 and an empty pending list.
C4_ChangeRemoveCollapse ==
  \A k \in Ids :
    ChangeAndRemoveAtTwo(k) =>
      LET n == Len(processed)
          em == {j \in 1..Len(emitted) : emitted[j].read \in {n - 1, n}}
      IN  /\ outcome \notin {"protocol", "grammar", "key", "stream"}
          /\ Cardinality(em) = 1
          /\ \A j \in em : emitted[j].update = LastChange
          /\ states[k] = [refCount |-> 1, pendingUpdates |-> << >>]

\* C4 witness: the Remove came first and the Change second.
C4_Witness ==
  \E k \in Ids :
    /\ ChangeAndRemoveAtTwo(k)
    /\ makeUpdate(feed[Len(processed)]).type = "change"
    /\ pc # "done"

\* C4, the other order: the Change came first and the Remove second.
C4_WitnessChangeFirst ==
  \E k \in Ids :
    /\ ChangeAndRemoveAtTwo(k)
    /\ makeUpdate(feed[Len(processed)]).type = "remove"
    /\ pc # "done"

\* The cursor has been opened: changes().run() has resolved (CursorOpen
\* issues the first read in the same step).
CursorOpened == issued >= 1

\* C5: when the signal is aborted while watch() awaits a cursor read (in the
\* initial collection or for the seed of a window) or the buffering delay,
\* that step ends the generator with AbortError, yields no batch and calls
\* cursor.close() once; nothing happens to the generator afterwards.
C5_AbortWhilePending ==
  [][/\ (~aborted /\ aborted' /\ pc \in {"initRead", "seedRead", "race"}) =>
          /\ pc' = "done"
          /\ outcome' = "AbortError"
          /\ yielded' = yielded
          /\ closeCalls = 0 /\ closeCalls' = 1
     /\ outcome = "AbortError" =>
          /\ pc' = "done" /\ outcome' = outcome
          /\ yielded' = yielded /\ closeCalls' = closeCalls]_vars

\* C5 witness: aborted while buffering, with updates already in the batch.
C5_Witness ==
  /\ outcome = "AbortError"
  /\ closeCalls = 1
  /\ Len(yielded) >= 1
  /\ batch # EmptyBatch

\* C5 witness: aborted while waiting for the seed read of a window.
C5_WitnessSeed ==
  /\ outcome = "AbortError"
  /\ closeCalls = 1
  /\ Len(yielded) = 2
  /\ batch = EmptyBatch
  /\ Len(feed) < issued

\* C6: once the cursor has been opened, the generator has ended exactly when
\* cursor.close() has been called, and it has been called once: no exit with
\* zero close calls, none with two, whatever ended the generator.
C6_CloseExactlyOnce ==
  /\ closeCalls \in {0, 1}
  /\ CursorOpened => (pc = "done" <=> closeCalls = 1)
  /\ ~CursorOpened => closeCalls = 0

\* C6 witness: a protocol violation inside a window after the first batch.
C6_Witness ==
  /\ outcome = "protocol"
  /\ Len(yielded) >= 1
  /\ closeCalls = 1

\* C6 witnesses of the other ways to end.
C6_WitnessReturn == outcome = "return" /\ Len(yielded) >= 2 /\ closeCalls = 1
C6_WitnessGrammar == outcome = "grammar" /\ Len(yielded) >= 1 /\ closeCalls = 1
C6_WitnessKey == outcome = "key" /\ Len(yielded) >= 1 /\ closeCalls = 1
C6_WitnessStream == outcome = "stream" /\ Len(yielded) >= 1 /\ closeCalls = 1
C6_WitnessAbort == outcome = "AbortError" /\ Len(yielded) >= 1 /\ closeCalls = 1

\* The updates of key k handed to addToBatch for the current batch, in order.
WinSeq(k) ==
  LET idx == {j \in (winStart + 1)..Len(emitted) : getKey(emitted[j].update) = k}
      RECURSIVE Build(_)
      Build(S) ==
        IF S = {} THEN << >>
        ELSE LET m == CHOOSE x \in S : \A y \in S : y <= x
             IN  Append(Build(S \ {m}), emitted[m].update)
  IN  Build(idx)

Types(seq) == [i \in 1..Len(seq) |-> seq[i].type]

\* C7: for the updates of one key merged into one batch without a grammar
\* error, an entry of the batch carries the oldVal of the first update when
\* that was a Change or Remove, and the newVal of the last update when that
\* was an Add or Change; in particular change,change,remove gives
\* Remove{first oldVal}, remove,add gives Change{removed oldVal, added
\* newVal}, and add,change,remove,add gives Add{last newVal}.
C7_NetEffect ==
  outcome # "grammar" =>
    \A k \in Keys :
      LET seq == WinSeq(k)
          first == seq[1]
          last == seq[Len(seq)]
      IN  seq # << >> =>
            /\ batch[k] # NullUpdate =>
                 /\ first.type \in {"change", "remove"} => batch[k].oldVal = first.oldVal
                 /\ last.type \in {"add", "change"} => batch[k].newVal = last.newVal
            /\ Types(seq) = <<"change", "change", "remove">> =>
                 batch[k] = RemoveUpdate(first.oldVal)
            /\ Types(seq) = <<"remove", "add">> =>
                 batch[k] = ChangeUpdate(first.oldVal, last.newVal)
            /\ Types(seq) = <<"add", "change", "remove", "add">> =>
                 batch[k] = AddUpdate(last.newVal)

\* C7 witness: change, change, remove of one key in one batch, where the
\* first oldVal differs from the oldVal of the Remove.
C7_Witness ==
  \E k \in Ids :
    /\ Types(WinSeq(k)) = <<"change", "change", "remove">>
    /\ WinSeq(k)[1].oldVal # WinSeq(k)[3].oldVal
    /\ outcome = "none"

\* C7 witnesses of the other two sequences.
C7_WitnessRemoveAdd ==
  \E k \in Ids : Types(WinSeq(k)) = <<"remove", "add">> /\ outcome = "none"
C7_WitnessAddChangeRemoveAdd ==
  \E k \in Ids :
    Types(WinSeq(k)) = <<"add", "change", "remove", "add">> /\ outcome = "none"

\* The step is the timer ending a window: the race is left and the
\* generator has not ended.
WindowCloses == pc = "race" /\ pc' \notin {"race", "done"}

\* C8 (the claim as stated): every non-initial window ends by yielding its
\* batch, also when the batch is empty.
C8_EveryWindowYields ==
  [][WindowCloses => pc' = "yieldBatch" /\ yielded' = Append(yielded, batch)]_vars

\* C8, what the src/package.json text does instead: a window whose batch is
\* empty is closed without a yield and the next window is started.
C8_EmptyWindowSkipped ==
  [][(WindowCloses /\ variant = "dedup" /\ batch = EmptyBatch) =>
        pc' = "seedRead" /\ yielded' = yielded]_vars

\* C8: an empty batch has been yielded for a window (src/src/watch.ts text:
\* Add then Remove of one key in one window).
C8_WitnessEmptyYield ==
  /\ Len(yielded) >= 2
  /\ yielded[Len(yielded)] = EmptyBatch
  /\ Len(emitted) >= 2

\* The step processes read i (appends it to processed).
Processes(i) == processed' = Append(processed, i)

\* C9: a raw event whose error field is set ends the generator with the
\* stream error in the step that processes it: no update is made of its
\* values (nothing is handed to addToBatch, the dedup map and the batch are
\* unchanged), no batch is yielded, no further read is issued and the cursor
\* is closed; after that the generator does nothing more.
C9_StreamErrorFatal ==
  [][/\ \A i \in 1..Len(feed) :
          (Processes(i) /\ feed[i].error) =>
            /\ pc' = "done" /\ outcome' = "stream"
            /\ emitted' = emitted /\ batch' = batch /\ states' = states
            /\ yielded' = yielded
            /\ issued' = issued
            /\ closeCalls = 0 /\ closeCalls' = 1
     /\ outcome = "stream" => UNCHANGED vars]_vars

\* C9 witness: an error event carrying a new_val ended the watch inside a
\* window whose batch already held an update.
C9_Witness ==
  /\ outcome = "stream"
  /\ feed[Len(processed)].new_val # NullVal
  /\ batch # EmptyBatch
  /\ Len(yielded) >= 1
  /\ closeCalls = 1

\* The raw event carries a value for which the key function returns a
\* non-string.
HasBadKey(changes) ==
  /\ ~makeUpdateThrows(changes)
  /\ makeUpdate(changes) # NullUpdate
  /\ ~KeyIsString(getKey(makeUpdate(changes)))

\* C10 (the claim as stated): when the key function returns a non-string
\* for the update of a raw event, the step that processes the event ends
\* the watch with the key error, and the dedup map and the batch are as
\* they were before the event was read.
C10_KeyErrorBeforeProcessing ==
  [][\A i \in 1..Len(feed) :
       (Processes(i) /\ HasBadKey(feed[i])) =>
         /\ pc' = "done" /\ outcome' = "key"
         /\ states' = states /\ batch' = batch /\ emitted' = emitted]_vars

\* C10 in the src/package.json text: the key error was raised inside a
\* window whose batch held an update.
C10_Witness ==
  /\ outcome = "key"
  /\ batch # EmptyBatch
  /\ Len(yielded) >= 1

\* The step aborts the signal.
Aborts == ~aborted /\ aborted'

\* C11 (the claim as stated): aborting the signal while an operation of
\* watch() is pending (key inference, opening of the cursor, a read of the
\* initial collection, the seed read of a window, buffering) makes that
\* operation fail in the same step: the generator ends with AbortError and
\* the cursor, when one exists, is closed.
C11_AbortFailsPendingOperation ==
  [][(Aborts /\ pc \in {"infer", "open", "initRead", "seedRead", "race"}) =>
        /\ pc' = "done"
        /\ outcome' = "AbortError"
        /\ CursorOpened => closeCalls' = 1]_vars

\* C11 (amended): an abort during key inference, a read of the initial
\* collection, the seed read of a window or buffering fails the pending
\* operation in the same step with AbortError, and the cursor is closed once
\* when it had been opened (during key inference there is none and none is
\* closed). An abort while the cursor is being opened does not fail the
\* opening: the generator stays where it is, and the step that opens the
\* cursor ends it with AbortError before any raw event is processed and
\* closes the cursor.
C11_AbortEndsWatch ==
  [][/\ (Aborts /\ pc \in {"infer", "initRead", "seedRead", "race"}) =>
          /\ pc' = "done"
          /\ outcome' = "AbortError"
          /\ closeCalls' = IF CursorOpened THEN 1 ELSE 0
     /\ (Aborts /\ pc = "open") =>
          /\ pc' = "open"
          /\ outcome' = "none"
          /\ closeCalls' = 0
     /\ (aborted /\ pc = "open" /\ pc' # "open") =>
          /\ pc' = "done"
          /\ outcome' = "AbortError"
          /\ closeCalls = 0 /\ closeCalls' = 1
          /\ processed' = << >>
          /\ yielded' = << >>]_vars

\* C11 witness: the signal was aborted while the cursor was being opened,
\* and the watch has ended with AbortError and a closed cursor.
C11_Witness ==
  /\ abortedAt = "open"
  /\ outcome = "AbortError"
  /\ closeCalls = 1
  /\ issued = 1

\* C11 witnesses of the other places: key inference (no cursor to close),
\* the initial collection, the seed read, buffering.
C11_WitnessInfer == abortedAt = "infer" /\ outcome = "AbortError" /\ closeCalls = 0
C11_WitnessInitial ==
  abortedAt = "initRead" /\ outcome = "AbortError" /\ closeCalls = 1 /\ Len(processed) >= 1
C11_WitnessSeedRead == abortedAt = "seedRead" /\ outcome = "AbortError" /\ closeCalls = 1
C11_WitnessRace ==
  abortedAt = "race" /\ outcome = "AbortError" /\ closeCalls = 1 /\ batch # EmptyBatch

\* C12: a window that has entered its race is left again (the timer fires
\* and the window closes, unless an error or an abort ends the watch first),
\* however many raw events arrive meanwhile; and during the race the read
\* loop goes on: a read that has resolved can be processed at once, and
\* processing it issues the next read without leaving the race.
C12_WindowClosesByTimer ==
  /\ (pc = "race") ~> (pc # "race")
  /\ [](pc = "race" /\ Resolved(pendingPromise) => ENABLED RaceStep)
  /\ [][(pc = "race" /\ Processes(pendingPromise) /\ outcome' = "none") =>
          pc' = "race" /\ issued' = issued + 1]_vars

\* C12 witness: a window was closed by the timer after its read loop had
\* processed two raw events beyond the seed.
C12_Witness ==
  /\ pc = "yieldBatch"
  /\ Len(yielded) = 2
  /\ Len(processed) >= FirstReady + 3

\* C13 (the claim as stated): consumeFeed yields the raw elements of the
\* feed in cursor order, one per pull: a pull at the yield with the signal
\* not aborted issues the next read and leaves the cursor open; and the
\* cursor is closed when the sequence has exited.
C13_ConsumeFeedStreams ==
  /\ [](yielded = [i \in 1..Len(yielded) |-> feed[i]])
  /\ [](pc = "done" /\ CursorOpened => closeCalls = 1)
  /\ [][(pc = "feedYield" /\ ~aborted /\ pc' # "feedYield" /\ outcome' # "return") =>
          /\ pc' = "feedRead"
          /\ issued' = issued + 1
          /\ closeCalls' = 0]_vars

\* C14 (the claim as stated): the change cursor is opened with squashing
\* disabled and with the initial result set and the state markers included.
C14_SquashDisabled ==
  CursorOpened =>
    changesOptions(variant) =
      [squash |-> FALSE, includeInitial |-> TRUE, includeStates |-> TRUE]

\* The processed reads of key k whose raw event is of the given type.
KeyReadsOf(k, type) == {i \in KeyReads(k) : makeUpdate(feed[i]).type = type}

\* C15: for every key the dedup state has refCount >= 0 and no more pending
\* changes than refCount, and the key has a state in the map exactly when
\* its refCount is at least 1; as long as no protocol violation was raised,
\* the refCount of the src/package.json text is the number of Adds minus the
\* number of Removes processed for the key, and a state leaves the map only
\* in a step that brings refCount from 1 to 0 with nothing pending.
C15_DedupStateInvariant ==
  /\ [](\A k \in Keys :
          /\ states[k].refCount >= 0
          /\ Len(states[k].pendingUpdates) <= states[k].refCount
          /\ HasState(states, k) <=> states[k].refCount >= 1)
  /\ [](\A k \in Ids :
          (variant = "dedup" /\ outcome # "protocol") =>
            states[k].refCount =
              Cardinality(KeyReadsOf(k, "add")) - Cardinality(KeyReadsOf(k, "remove")))
  /\ [][\A k \in Keys :
          (HasState(states, k) /\ ~HasState(states', k)) =>
            /\ states[k] = [refCount |-> 1, pendingUpdates |-> << >>]
            /\ Len(processed') \in KeyReadsOf(k, "remove")']_vars

\* C15 witness: a key with two references and one pending Change.
C15_Witness ==
  \E k \in Ids :
    /\ states[k].refCount = 2
    /\ Len(states[k].pendingUpdates) = 1
    /\ outcome = "none"

\* C15 witness: a key whose state left the map after two Adds and two
\* Removes.
C15_WitnessRemoved ==
  \E k \in Ids :
    /\ Cardinality(KeyReadsOf(k, "add")) = 2
    /\ Cardinality(KeyReadsOf(k, "remove")) = 2
    /\ ~HasState(states, k)
    /\ variant = "dedup"
    /\ outcome = "none"

\* The updates of key k that handleDuplicateUpdates has let through (the
\* src/package.json text), in order.
TrackerSeq(k) ==
  LET idx == {j \in 1..Len(emitted) : getKey(emitted[j].update) = k}
      RECURSIVE Build(_)
      Build(S) ==
        IF S = {} THEN << >>
        ELSE LET m == CHOOSE x \in S : \A y \in S : y <= x
             IN  Append(Build(S \ {m}), emitted[m].update)
  IN  IF variant = "dedup" THEN Build(idx) ELSE << >>

\* The step lets an update of key k and the given type through.
LetsThrough(k, type) ==
  /\ variant = "dedup"
  /\ Len(emitted') = Len(emitted) + 1
  /\ getKey(emitted'[Len(emitted')].update) = k
  /\ emitted'[Len(emitted')].update.type = type

\* C16: the updates the Dedup Tracker lets through for one key form the
\* sequence Add, Change*, Remove, Add, ...: the first is an Add, and an Add
\* follows a Remove and nothing else follows a Remove. An Add is let through
\* only for a key without a state (which then has refCount 1), a Remove only
\* by a raw Remove that takes refCount from 1 to 0 and deletes the state.
C16_TrackerGrammar ==
  /\ [](\A k \in Ids :
          LET seq == TrackerSeq(k) IN
          \A j \in 1..Len(seq) :
            /\ j = 1 => seq[j].type = "add"
            /\ j > 1 => (seq[j].type = "add" <=> seq[j - 1].type = "remove"))
  /\ [][\A k \in Ids :
          /\ LetsThrough(k, "add") =>
               /\ ~HasState(states, k)
               /\ states'[k] = [refCount |-> 1, pendingUpdates |-> << >>]
          /\ LetsThrough(k, "remove") =>
               /\ states[k].refCount = 1
               /\ ~HasState(states', k)
               /\ makeUpdate(feed[Len(processed')]).type = "remove"]_vars

\* C16 witness: two Adds and two Removes of one key arrived; one Add and
\* one Remove were let through.
C16_Witness ==
  \E k \in Ids :
    /\ Types(TrackerSeq(k)) = <<"add", "remove">>
    /\ Cardinality(KeyReads(k)) = 4

\* C16 witness: a whole life of a key and the start of the next.
C16_WitnessCycle ==
  \E k \in Ids : Types(TrackerSeq(k)) = <<"add", "change", "remove", "add">>

\* C17: when a raw Change of a key that has a state with refCount N is
\* processed, the Change joins the pending list and refCount stays N; if
\* the list has then N entries it is emptied and this Change is let
\* through, otherwise the list keeps the Change and nothing is let through.
\* So of N Changes that report one change, only the last is let through.
C17_LastChangeEmitted ==
  [][\A k \in Ids :
       LET i == Len(processed')
           u == makeUpdate(feed[i])
           N == states[k].refCount
           pushed == Append(states[k].pendingUpdates, u)
       IN  (/\ Processes(i)
            /\ ~makeUpdateThrows(feed[i])
            /\ u.type = "change"
            /\ getKey(u) = k
            /\ HasState(states, k)) =>
             /\ states'[k].refCount = N
             /\ IF Len(pushed) = N
                  THEN /\ states'[k].pendingUpdates = << >>
                       /\ emitted' = Append(emitted, [read |-> i, update |-> u])
                  ELSE /\ states'[k].pendingUpdates = pushed
                       /\ emitted' = emitted]_vars

\* C17 witness: a key with two references has received two Changes; one
\* Change was let through, the second one.
C17_Witness ==
  \E k \in Ids :
    /\ states[k] = [refCount |-> 2, pendingUpdates |-> << >>]
    /\ Cardinality(KeyReadsOf(k, "change")) = 2
    /\ Types(TrackerSeq(k)) = <<"add", "change">>
    /\ emitted[Len(emitted)].read = Len(processed)
    /\ Len(processed) = 4

\* C17 witness: the first of the two Changes is pending, nothing let through.
C17_WitnessPending ==
  \E k \in Ids :
    /\ states[k].refCount = 2
    /\ Len(states[k].pendingUpdates) = 1
    /\ Types(TrackerSeq(k)) = <<"add">>
    /\ makeUpdate(feed[Len(processed)]).type = "change"

\* C18: at most one cursor.next() read is unresolved at any time; a read is
\* issued only when every earlier read has resolved; and the top of the
\* streaming loop awaits the read left in pendingPromise when there is one,
\* issuing no read beside it.
C18_OneReadInFlight ==
  /\ [](issued - Len(feed) \in {0, 1})
  /\ [][issued' # issued => (issued' = issued + 1 /\ Len(feed) = issued)]_vars
  /\ [][(pc \in {"yieldInitial", "yieldBatch", "race"} /\ pc' = "seedRead") =>
          IF pendingPromise # 0
            THEN nextPromise' = pendingPromise /\ issued' = issued
            ELSE nextPromise' = issued + 1 /\ issued' = issued + 1]_vars

\* C18 witness: the read that was unresolved when the timer closed a window
\* is the one the next window awaits, still unresolved, and it is the last
\* read issued.
C18_Witness ==
  /\ pc = "seedRead"
  /\ carried # 0
  /\ nextPromise = carried
  /\ ~Resolved(carried)
  /\ issued = carried
  /\ Len(yielded) >= 2

\* C19 (the claim as stated): the race of a window, and with it the
\* bufferTimeMs timer, is started only by the step that put a non-null
\* update into the batch, so the batch is not empty when the timer starts.
C19_TimerAfterNonNullUpdate ==
  [][(pc = "seedRead" /\ pc' = "race") =>
        /\ Len(emitted') = Len(emitted) + 1
        /\ BatchSize(batch') >= 1]_vars

\* The generator is suspended at a yield: the consumer holds the batch.
AtYield == pc \in {"yieldInitial", "yieldBatch"}

\* C20: while the consumer holds a batch, the batch is as it was yielded
\* and no raw event is processed; the batch variable changes from there
\* only by becoming the fresh, empty batch of the next window; and a seed
\* read (the carried-over pending read included) is merged into that fresh
\* batch, which holds nothing of the windows before.
C20_NoMutationAfterYield ==
  /\ [](AtYield => batch = yielded[Len(yielded)])
  /\ [][AtYield =>
          /\ processed' = processed
          /\ emitted' = emitted
          /\ \/ batch' = batch
             \/ batch' = EmptyBatch /\ pc' \in {"seedRead", "done"}]_vars
  /\ [][(pc = "seedRead" /\ processed' # processed) =>
          /\ batch = EmptyBatch
          /\ winStart = Len(emitted)]_vars

\* C20 witness: a read was unresolved when the timer closed a window; it
\* resolved after the yield and its update is the first of the next
\* window's batch, which differs from the batch yielded before.
C20_Witness ==
  /\ pc = "race"
  /\ carried # 0
  /\ Len(yielded) >= 2
  /\ Len(emitted) > winStart
  /\ emitted[winStart + 1].read = carried
  /\ batch # EmptyBatch
  /\ batch # yielded[Len(yielded)]

\* The step hands an update to addToBatch.
HandsOver == Len(emitted') = Len(emitted) + 1

\* The update handed to addToBatch by the step.
HandedOver == emitted'[Len(emitted')].update

\* The pair (entry of the batch, new update) is one addToBatch throws on.
Forbidden(prev, update) ==
  \/ prev.type = "add" /\ update.type = "add"
  \/ prev.type = "change" /\ update.type = "add"
  \/ prev.type = "remove" /\ update.type \in {"change", "remove"}

\* The transition table of the Batch Merger: the entry (NullUpdate: none)
\* that results from the previous entry and the new update.
TableEntry(prev, update) ==
  CASE prev = NullUpdate -> update
    [] prev.type = "add" /\ update.type = "change" -> AddUpdate(update.newVal)
    [] prev.type = "add" /\ update.type = "remove" -> NullUpdate
    [] prev.type = "change" /\ update.type = "change" ->
         ChangeUpdate(prev.oldVal, update.newVal)
    [] prev.type = "change" /\ update.type = "remove" -> RemoveUpdate(prev.oldVal)
    [] prev.type = "remove" /\ update.type = "add" ->
         ChangeUpdate(prev.oldVal, update.newVal)

\* C21: whenever an update is handed to addToBatch and the pair (previous
\* entry, update) is in the transition table, the entry of the update's key
\* becomes what the table says, no error is raised by the merge, and the
\* entries of all other keys stay as they are.
C21_TransitionTable ==
  [][(HandsOver /\ ~Forbidden(batch[getKey(HandedOver)], HandedOver)) =>
        LET k == getKey(HandedOver) IN
        /\ outcome' # "grammar"
        /\ batch'[k] = TableEntry(batch[k], HandedOver)
        /\ \A j \in Keys \ {k} : batch'[j] = batch[j]]_vars

\* C21 witness: a Change followed by a Remove of one key left
\* Remove{first oldVal} beside the untouched entry of another key.
C21_Witness ==
  \E k \in Ids :
    /\ Types(WinSeq(k)) = <<"change", "remove">>
    /\ batch[k] = RemoveUpdate(WinSeq(k)[1].oldVal)
    /\ BatchSize(batch) = 2
    /\ outcome = "none"

\* C21 witnesses of the other rows of the table.
C21_WitnessAddChange ==
  \E k \in Ids :
    /\ Types(WinSeq(k)) = <<"add", "change">>
    /\ batch[k] = AddUpdate(WinSeq(k)[2].newVal)
    /\ WinSeq(k)[1].newVal # WinSeq(k)[2].newVal
C21_WitnessAddRemove ==
  \E k \in Ids :
    Types(WinSeq(k)) = <<"add", "remove">> /\ batch[k] = NullUpdate /\ outcome = "none"
C21_WitnessChangeChange ==
  \E k \in Ids :
    /\ Types(WinSeq(k)) = <<"change", "change">>
    /\ batch[k] = ChangeUpdate(WinSeq(k)[1].oldVal, WinSeq(k)[2].newVal)
C21_WitnessRemoveAdd ==
  \E k \in Ids :
    /\ Types(WinSeq(k)) = <<"remove", "add">>
    /\ batch[k] = ChangeUpdate(WinSeq(k)[1].oldVal, WinSeq(k)[2].newVal)
    /\ WinSeq(k)[1].oldVal # WinSeq(k)[2].newVal

\* C22: when an update handed to addToBatch is an Add after an Add or a
\* Change, or a Change or Remove after a Remove, for the entry of its key in
\* the current batch, the step ends the watch with the grammar error: the
\* batch is left as it was, no batch is yielded, the cursor is closed; and
\* after that nothing happens any more.
C22_GrammarViolationFatal ==
  [][/\ (HandsOver /\ Forbidden(batch[getKey(HandedOver)], HandedOver)) =>
          /\ pc' = "done"
          /\ outcome' = "grammar"
          /\ batch' = batch
          /\ yielded' = yielded
          /\ closeCalls = 0 /\ closeCalls' = 1
     /\ outcome = "grammar" => UNCHANGED vars]_vars

\* The watch has ended with a grammar error on an update of the given type
\* against an entry of the given type.
GrammarErrorOn(prevType, type) ==
  /\ outcome = "grammar"
  /\ closeCalls = 1
  /\ emitted[Len(emitted)].update.type = type
  /\ batch[getKey(emitted[Len(emitted)].update)].type = prevType

\* C22 witness: Remove after Remove inside a window, after the first batch.
C22_Witness == GrammarErrorOn("remove", "remove") /\ Len(yielded) >= 1

\* C22 witnesses of the other three pairs.
C22_WitnessAddAdd == GrammarErrorOn("add", "add")
C22_WitnessChangeAdd == GrammarErrorOn("change", "add")
C22_WitnessRemoveChange == GrammarErrorOn("remove", "change")

\* The value of key k (NullVal: absent) before the first and after the last
\* of the updates merged into the current batch for it.
ValueAtStart(k) ==
  IF WinSeq(k)[1].type = "add" THEN NullVal ELSE WinSeq(k)[1].oldVal
ValueAtClose(k) ==
  LET last == WinSeq(k)[Len(WinSeq(k))]
  IN  IF last.type = "remove" THEN NullVal ELSE last.newVal

\* The updates of a key follow one another as the life of one key does: an
\* Add comes after a Remove, a Change or Remove after an Add or a Change.
Alternates(seq) ==
  \A j \in 2..Len(seq) : seq[j].type = "add" <=> seq[j - 1].type = "remove"

\* C23 (the claim as stated): a yielded batch has no entry for a key whose
\* presence and value after the updates of the window equal its presence
\* and value before them.
C23_NoEntryWithoutNetChange ==
  AtYield =>
    \A k \in Keys :
      (WinSeq(k) # << >> /\ Alternates(WinSeq(k))
         /\ ValueAtStart(k) = ValueAtClose(k)) =>
        batch[k] = NullUpdate

\* C23 (amended): a yielded batch has no entry for a key that was absent
\* before the updates of the window and is absent after them (an Add, any
\* Changes, a Remove, and so on in that order); a key that was present before and is present after
\* has a Change entry from its first oldVal to its last newVal, also when
\* the two are equal (removed and added again with the same value, or
\* changed back).
C23_NoEntryForAddThenRemove ==
  AtYield =>
    \A k \in Keys :
      (WinSeq(k) # << >> /\ Alternates(WinSeq(k))) =>
        /\ (ValueAtStart(k) = NullVal /\ ValueAtClose(k) = NullVal) =>
             batch[k] = NullUpdate
        /\ (ValueAtStart(k) # NullVal /\ ValueAtClose(k) # NullVal) =>
             batch[k] = ChangeUpdate(ValueAtStart(k), ValueAtClose(k))

\* C23 witness: a window in which one key was added and removed and another
\* key was added has been yielded; only the other key has an entry.
C23_Witness ==
  /\ pc = "yieldBatch"
  /\ BatchSize(batch) = 1
  /\ \E k \in Ids : Types(WinSeq(k)) = <<"add", "remove">> /\ batch[k] = NullUpdate

\* C23 witness: a yielded batch holds a Change whose oldVal equals its
\* newVal, for a key that was removed and added again.
C23_WitnessSameValue ==
  /\ AtYield
  /\ \E k \in Ids :
       /\ Types(WinSeq(k)) = <<"remove", "add">>
       /\ batch[k].type = "change"
       /\ batch[k].oldVal = batch[k].newVal

\* The raw event is a Change or Remove of key k.
ChangeOrRemoveOf(changes, k) ==
  /\ ~makeUpdateThrows(changes)
  /\ makeUpdate(changes).type \in {"change", "remove"}
  /\ getKey(makeUpdate(changes)) = k

\* C24 (the claim as stated): a step that processes a raw Change or Remove
\* of a key that has no state in the dedup map ends the watch with the
\* protocol error: nothing is handed to addToBatch, the dedup map and the
\* batch stay as they were and the cursor is closed.
C24_NoStateIsFatal ==
  [][\A i \in 1..Len(feed) : \A k \in Ids :
       (Processes(i) /\ ChangeOrRemoveOf(feed[i], k) /\ ~HasState(states, k)) =>
         /\ pc' = "done"
         /\ outcome' = "protocol"
         /\ emitted' = emitted
         /\ states' = states
         /\ batch' = batch
         /\ closeCalls = 0 /\ closeCalls' = 1]_vars

\* C24 in the src/package.json text: a Remove of a key that had been added
\* and fully removed ended the watch.
C24_Witness ==
  /\ outcome = "protocol"
  /\ closeCalls = 1
  /\ \E k \in Ids :
       /\ ChangeOrRemoveOf(feed[Len(processed)], k)
       /\ Cardinality(KeyReadsOf(k, "add")) = 1
       /\ Cardinality(KeyReadsOf(k, "remove")) = 2

\* What the Normalizer is to make of a raw event without error.
Normalised(changes) ==
  CASE changes.new_val # NullVal /\ changes.old_val = NullVal ->
         [type |-> "add", oldVal |-> NullVal, newVal |-> changes.new_val]
    [] changes.new_val # NullVal /\ changes.old_val # NullVal ->
         [type |-> "change", oldVal |-> changes.old_val, newVal |-> changes.new_val]
    [] changes.new_val = NullVal /\ changes.old_val # NullVal ->
         [type |-> "remove", oldVal |-> changes.old_val, newVal |-> NullVal]
    [] OTHER -> NullUpdate

\* C25: for every raw event that is processed: with error set, the step
\* ends the watch with the stream error whatever its values; otherwise
\* makeUpdate gives Add{newVal}, Change{oldVal, newVal}, Remove{oldVal} or
\* null by the values present, and that is the update the step works with:
\* on null nothing is handed to addToBatch and the dedup map and the batch
\* stay as they were, while a 'ready' marker (and only it) ends the initial
\* collection; an update handed to addToBatch is the normalised one (or, in
\* the src/package.json text, the pending Change a Remove releases).
C25_MakeUpdateMapping ==
  [][\A i \in 1..Len(feed) :
       Processes(i) =>
         LET changes == feed[i] IN
         IF changes.error
           THEN outcome' = "stream" /\ emitted' = emitted /\ batch' = batch
           ELSE
             /\ makeUpdate(changes) = Normalised(changes)
             /\ Normalised(changes) = NullUpdate =>
                  /\ emitted' = emitted
                  /\ batch' = batch
                  /\ states' = states
                  /\ outcome' = "none"
                  /\ pc = "initRead" =>
                       (changes.state = "ready" <=> pc' = "yieldInitial")
             /\ (Normalised(changes) # NullUpdate /\ HandsOver) =>
                  \/ HandedOver = Normalised(changes)
                  \/ /\ variant = "dedup"
                     /\ Normalised(changes).type = "remove"
                     /\ HandedOver.type = "change"]_vars

\* C25 witness: an Add, a Change, a Remove and a 'ready' marker have been
\* processed, the marker ending the initial collection.
C25_Witness ==
  /\ Len(processed) = 4
  /\ {makeUpdate(feed[i]).type : i \in 1..4} = {"add", "change", "remove", "null"}
  /\ \A i \in 1..4 : ~feed[i].error
  /\ pc = "yieldInitial"

\* C26: in the text that has the Dedup Tracker, no update that
\* handleDuplicateUpdates lets through meets an entry of the current batch
\* it is forbidden after (Add after Add or Change, Change or Remove after
\* Remove), wherever the windows begin and end, so the watch never ends
\* with a grammar error.
C26_GrammarErrorsUnreachable ==
  /\ [](variant = "dedup" => outcome # "grammar")
  /\ [][(variant = "dedup" /\ HandsOver) =>
          ~Forbidden(batch[getKey(HandedOver)], HandedOver)]_vars

\* C26 witness: with the Dedup Tracker, an Add, a Change, a Remove and an
\* Add of one key were merged into one batch.
C26_Witness ==
  /\ variant = "dedup"
  /\ outcome = "none"
  /\ \E k \in Ids : Types(WinSeq(k)) = <<"add", "change", "remove", "add">>

\* C26 witness: the window boundary fell between the Add and the Change of
\* one key that were let through, with a third raw update of the key read.
C26_WitnessAcrossWindows ==
  /\ variant = "dedup"
  /\ outcome = "none"
  /\ Len(yielded) >= 1
  /\ \E k \in Ids :
       /\ Cardinality(KeyReads(k)) = 3
       /\ Types(TrackerSeq(k)) = <<"add", "change">>
       /\ Types(WinSeq(k)) = <<"change">>

\* The key set of a consumer that has applied the batches ys in order to
\* its own map: set the key for an entry with newVal, delete it otherwise.
RECURSIVE ConsumerKeys(_)
ConsumerKeys(ys) ==
  IF ys = << >> THEN {}
  ELSE LET before == ConsumerKeys(SubSeq(ys, 1, Len(ys) - 1))
           b == ys[Len(ys)]
       IN  (before \cup {k \in BatchKeys(b) : b[k].newVal # NullVal})
             \ {k \in BatchKeys(b) : b[k].newVal = NullVal}

\* C27 (the claim as stated): at every yield the key set of a consumer that
\* has applied all yielded batches equals the set of keys that have a state
\* in the dedup map; and the batch just yielded holds an Add only for a key
\* the consumer did not have, a Change or Remove only for a key it had.
C27_ConsumerMapMatchesStates ==
  AtYield =>
    /\ ConsumerKeys(yielded) = {k \in Keys : HasState(states, k)}
    /\ LET had == ConsumerKeys(SubSeq(yielded, 1, Len(yielded) - 1)) IN
       \A k \in BatchKeys(batch) :
         IF batch[k].type = "add" THEN k \notin had ELSE k \in had

\* C27 in the src/package.json text: after the first batch added two keys
\* and a later batch removed one, the consumer holds the other.
C27_Witness ==
  /\ variant = "dedup"
  /\ pc = "yieldBatch"
  /\ Cardinality(ConsumerKeys(yielded)) = 1
  /\ \E k \in Ids : batch[k].type = "remove"

\* C28 (the claim as stated): every entry of the first yielded batch is an
\* Add.
C28_FirstBatchOnlyAdds ==
  Len(yielded) >= 1 => \A k \in BatchKeys(yielded[1]) : yielded[1][k].type = "add"

\* C28 in the src/package.json text: an Add and a Change of one key and an
\* Add of another arrived before 'ready'; the first batch holds two Adds,
\* the first with the changed value.
C28_Witness ==
  /\ variant = "dedup"
  /\ Len(yielded) >= 1
  /\ BatchSize(yielded[1]) = 2
  /\ \E i \in 1..FirstReady : makeUpdate(feed[i]).type = "change"

\* C29: a step that ends the watch while a window is open (its seed is
\* awaited or its race runs) yields nothing, so the updates merged into the
\* window's batch are not delivered; and once the watch has ended it stays
\* ended: no batch is yielded, no read is issued or processed, and the
\* cursor is not closed again.
C29_NothingAfterFailure ==
  /\ [][(pc \in {"seedRead", "race"} /\ pc' = "done") => yielded' = yielded]_vars
  /\ [][pc = "done" =>
          /\ pc' = "done"
          /\ outcome' = outcome
          /\ yielded' = yielded
          /\ issued' = issued
          /\ processed' = processed
          /\ closeCalls' = closeCalls]_vars

\* The watch ended inside a window in which updates had been merged into
\* the batch; the batch was not yielded.
EndedWithOpenBatch ==
  /\ pc = "done"
  /\ Len(yielded) >= 1
  /\ Len(emitted) > winStart
  /\ batch # EmptyBatch
  /\ batch # yielded[Len(yielded)]
  /\ closeCalls = 1

\* C29 witness: a fatal error ended the watch inside a window.
C29_Witness ==
  EndedWithOpenBatch /\ outcome \in {"stream", "key", "protocol", "grammar"}

\* C29 witness: an abort ended the watch inside a window.
C29_WitnessAbort == EndedWithOpenBatch /\ outcome = "AbortError" /\ abortedAt = "race"

\* The step in which watch() ends while it resolves the key: the signal is
\* already aborted when inference is to start, or inference throws or is
\* aborted while it runs.
FailsResolvingKey ==
  /\ pc \in {"start", "infer"}
  /\ pc' = "done"
  /\ outcome' \in {"inferError", "AbortError"}

\* C30: when watch() has no key function and primary-key inference fails or
\* is aborted, it ends before a cursor exists: no cursor.next() has been
\* issued and no cursor.close() called at that point, none is afterwards,
\* and the cursor delivers nothing.
C30_InferFailureOpensNoCursor ==
  /\ []((outcome = "inferError" \/ (outcome = "AbortError" /\ abortedAt = "infer"))
          => (issued = 0 /\ closeCalls = 0 /\ feed = <<>>))
  /\ [][FailsResolvingKey => (issued' = 0 /\ closeCalls' = 0 /\ feed' = <<>>)]_vars
  /\ [][(pc = "done" /\ issued = 0) => (issued' = 0 /\ closeCalls' = closeCalls /\ feed' = feed)]_vars

\* C30 witness: inference threw; the watch is over and no cursor was used.
C30_Witness ==
  pc = "done" /\ outcome = "inferError" /\ ~aborted /\ issued = 0 /\ closeCalls = 0

\* C30 witness: the signal was aborted before the first iterator.next() and
\* no key function was given.
C30_WitnessAbortedBefore ==
  pc = "done" /\ outcome = "AbortError" /\ abortedAt = "start" /\ issued = 0 /\ closeCalls = 0

\* C31: between raw events every state stored in the dedup map has
\* refCount >= 1 and strictly fewer pending Changes than refCount; and a
\* raw Remove that leaves a non-zero refCount equal to the number of pending
\* Changes finds the pending list non-empty: the update let through in its
\* place is the last pending Change (a defined update of type change), and
\* the pending list is emptied.
C31_PendingBelowRefCount ==
  /\ [](\A k \in Keys :
          HasState(states, k) =>
            /\ states[k].refCount >= 1
            /\ Len(states[k].pendingUpdates) < states[k].refCount)
  /\ [][\A k \in Ids :
          LET i == Len(processed')
              u == makeUpdate(feed[i])
              rc == states[k].refCount - 1
              pu == states[k].pendingUpdates
          IN  (/\ Processes(i)
               /\ ~makeUpdateThrows(feed[i])
               /\ u.type = "remove"
               /\ getKey(u) = k
               /\ HasState(states, k)
               /\ Len(pu) = rc
               /\ rc # 0) =>
                /\ Len(pu) >= 1
                /\ pu[Len(pu)].type = "change"
                /\ emitted' = Append(emitted, [read |-> i, update |-> pu[Len(pu)]])
                /\ states'[k] = [refCount |-> rc, pendingUpdates |-> << >>]]_vars

\* C31 witness: key k had two references and one pending Change; the raw
\* Remove just processed was replaced by that Change, and the state is left
\* with one reference and nothing pending.
C31_Witness ==
  \E k \in Ids :
    /\ variant = "dedup"
    /\ Len(processed) >= 1
    /\ makeUpdate(feed[Len(processed)]).type = "remove"
    /\ getKey(makeUpdate(feed[Len(processed)])) = k
    /\ states[k] = [refCount |-> 1, pendingUpdates |-> << >>]
    /\ Len(emitted) >= 1
    /\ emitted[Len(emitted)].read = Len(processed)
    /\ emitted[Len(emitted)].update.type = "change"

====
